---- MODULE Spec2Model ----
(***************************************************************************)
(* A model of acta's storage layer (src/src/persistence.rs), its data      *)
(* model (src/src/model.rs) and its binary entry point (src/src/main.rs,   *)
(* src/src/cli.rs).                                                        *)
(*                                                                         *)
(* Text (the store file's content, serialized JSON) is a sequence of       *)
(* one-character strings.  serde_json::to_string and serde_json::from_str  *)
(* are modelled by what they do on that text: to_string writes the compact *)
(* JSON of a Vec<Todo>, from_str is a recursive-descent reader of it.      *)
(* std::fs::write is File::create (open, create, truncate) followed by     *)
(* write_all at offset 0: two steps, between which another process may run *)
(* or the process may die.                                                 *)
(***************************************************************************)
EXTENDS Integers, Sequences, FiniteSets, TLC

\* Longest list of todos a caller passes to write().
MaxLen == 2
\* Storage calls one process makes.
MaxCalls == 2

Procs == {1, 2}

(***************************************************************************)
(* Characters                                                              *)
(***************************************************************************)
Q == "\""
BS == "\\"
NL == "\n"
EOF == ""
\* A byte that is part of no UTF-8 text.
BadByte == "0xFF"
Digits == <<"0", "1", "2", "3", "4", "5", "6", "7", "8", "9">>

\* const FILE_NAME
FILE_NAME == ".acta"

\* home_dir() = None
NoHome == "none"
Homes == {"/home/u", "/root"}

(***************************************************************************)
(* model.rs: Todo, TodoState and their serde names                         *)
(***************************************************************************)
TodoState == {"Pending", "Completed"}

PendingName == <<"P", "e", "n", "d", "i", "n", "g">>
CompletedName == <<"C", "o", "m", "p", "l", "e", "t", "e", "d">>
IdKey == <<"i", "d">>
ContentKey == <<"c", "o", "n", "t", "e", "n", "t">>
StateKey == <<"s", "t", "a", "t", "e">>

StateName(st) == IF st = "Pending" THEN PendingName ELSE CompletedName

Todo(i, c, st) == [id |-> i, content |-> c, state |-> st]

\* The records the callers of the model pass around: a one-digit id and a
\* plain content; a two-digit id and a content holding a quote, a backslash,
\* a line feed and JSON's structural characters.
TodoA == Todo(0, <<"a">>, "Pending")
TodoB == Todo(12, <<Q, BS, NL, "]", ",", "}">>, "Completed")
Pool == {TodoA, TodoB}

TodoLists == UNION {[1..n -> Pool] : n \in 0..MaxLen}

(***************************************************************************)
(* serde_json::to_string(&todos)                                           *)
(***************************************************************************)
RECURSIVE itoa(_)
itoa(n) ==
    IF n < 10 THEN <<Digits[n + 1]>>
    ELSE itoa(n \div 10) \o <<Digits[(n % 10) + 1]>>

escape_char(c) ==
    IF c = Q THEN <<BS, Q>>
    ELSE IF c = BS THEN <<BS, BS>>
    ELSE IF c = NL THEN <<BS, "n">>
    ELSE IF c = "\t" THEN <<BS, "t">>
    ELSE IF c = "\r" THEN <<BS, "r">>
    ELSE <<c>>

RECURSIVE escape(_)
escape(s) ==
    IF s = <<>> THEN <<>> ELSE escape_char(Head(s)) \o escape(Tail(s))

ser_str(s) == <<Q>> \o escape(s) \o <<Q>>

ser_todo(t) ==
    <<"{">> \o ser_str(IdKey) \o <<":">> \o itoa(t.id)
    \o <<",">> \o ser_str(ContentKey) \o <<":">> \o ser_str(t.content)
    \o <<",">> \o ser_str(StateKey) \o <<":">> \o ser_str(StateName(t.state))
    \o <<"}">>

RECURSIVE ser_elems(_)
ser_elems(todos) ==
    IF todos = <<>> THEN <<>>
    ELSE IF Len(todos) = 1 THEN ser_todo(todos[1])
    ELSE ser_todo(Head(todos)) \o <<",">> \o ser_elems(Tail(todos))

to_string(todos) == <<"[">> \o ser_elems(todos) \o <<"]">>

(***************************************************************************)
(* serde_json::from_str::<Vec<Todo>>(text)                                 *)
(*                                                                         *)
(* Every reader takes the text and a position and answers                  *)
(* [ok, pos, val]: whether it read a value, the position after it, the     *)
(* value.  Fail is any error of serde_json (all are ActaError::Parse).     *)
(***************************************************************************)
Fail == [ok |-> FALSE]
Got(p, v) == [ok |-> TRUE, pos |-> p, val |-> v]

At(s, i) == IF i >= 1 /\ i <= Len(s) THEN s[i] ELSE EOF

IsWs(c) == c \in {" ", "\t", "\n", "\r"}
IsDigit(c) == c \in {"0", "1", "2", "3", "4", "5", "6", "7", "8", "9"}
DigitVal(c) == CHOOSE n \in 0..9 : Digits[n + 1] = c

RECURSIVE SkipWs(_, _)
SkipWs(s, i) == IF IsWs(At(s, i)) THEN SkipWs(s, i + 1) ELSE i

\* Whether the characters of lit stand at position i.
Match(s, i, lit) ==
    /\ i + Len(lit) - 1 <= Len(s)
    /\ \A k \in 1..Len(lit) : s[i + k - 1] = lit[k]

\* The character an escape sequence \e stands for; EOF for none.
\* (\b, \f and \uXXXX are not among the model's characters.)
Unescape(e) ==
    IF e = Q THEN Q
    ELSE IF e = BS THEN BS
    ELSE IF e = "/" THEN "/"
    ELSE IF e = "n" THEN NL
    ELSE IF e = "t" THEN "\t"
    ELSE IF e = "r" THEN "\r"
    ELSE EOF

\* The body of a string, after its opening quote.
RECURSIVE str_body(_, _, _)
str_body(s, i, acc) ==
    IF At(s, i) = EOF THEN Fail
    ELSE IF At(s, i) = Q THEN Got(i + 1, acc)
    ELSE IF At(s, i) = BS THEN
        IF Unescape(At(s, i + 1)) = EOF THEN Fail
        ELSE str_body(s, i + 2, Append(acc, Unescape(At(s, i + 1))))
    ELSE IF At(s, i) \in {"\n", "\t", "\r"} THEN Fail
    ELSE str_body(s, i + 1, Append(acc, At(s, i)))

parse_str(s, i) == IF At(s, i) = Q THEN str_body(s, i + 1, <<>>) ELSE Fail

RECURSIVE num_body(_, _, _)
num_body(s, i, acc) ==
    IF IsDigit(At(s, i)) THEN num_body(s, i + 1, acc * 10 + DigitVal(At(s, i)))
    ELSE Got(i, acc)

\* The position after a value that was read, 0 after a failure.  No reader
\* reads anything at position 0.
After(r) == IF r.ok THEN r.pos ELSE 0

\* The position after the character ch, which stands at i or after white
\* space from i; 0 when something else stands there.
Expect(s, i, ch) ==
    IF i >= 1 /\ At(s, SkipWs(s, i)) = ch THEN SkipWs(s, i) + 1 ELSE 0

\* The same for the characters of lit.
ExpectLit(s, i, lit) ==
    IF i >= 1 /\ Match(s, SkipWs(s, i), lit) THEN SkipWs(s, i) + Len(lit) ELSE 0

\* A u64: digits only; a leading zero, a sign, a fraction or an exponent is
\* an error.  (The texts of the model hold ids of at most three digits.)
u64_end(s, i, r) ==
    IF ~IsDigit(At(s, i)) THEN Fail
    ELSE IF At(s, i) = "0" /\ IsDigit(At(s, i + 1)) THEN Fail
    ELSE IF At(s, r.pos) \in {".", "e", "E"} THEN Fail
    ELSE r

parse_u64(s, i) == u64_end(s, i, num_body(s, i, 0))

\* A TodoState: "Pending", "Completed", or the map form {"Pending":null}.
state_named(r) ==
    IF ~r.ok THEN Fail
    ELSE IF r.val = PendingName THEN Got(r.pos, "Pending")
    ELSE IF r.val = CompletedName THEN Got(r.pos, "Completed")
    ELSE Fail

state_map_end(n, e) == IF n.ok /\ e > 0 THEN Got(e, n.val) ELSE Fail

state_map(s, k) ==
    state_map_end(
        state_named(k),
        Expect(s, ExpectLit(s, Expect(s, After(k), ":"), <<"n", "u", "l", "l">>),
               "}"))

parse_state(s, i) ==
    IF At(s, i) = Q THEN state_named(parse_str(s, i))
    ELSE IF At(s, i) = "{" THEN state_map(s, parse_str(s, SkipWs(s, i + 1)))
    ELSE Fail

\* The value of a field the struct does not have (serde's IgnoredAny): a
\* string, an unsigned number or a literal.  (The texts of the model nest no
\* arrays or objects there.)
skip_value(s, i) ==
    IF At(s, i) = Q THEN parse_str(s, i)
    ELSE IF IsDigit(At(s, i)) THEN
        IF At(s, i) = "0" /\ IsDigit(At(s, i + 1)) THEN Fail
        ELSE num_body(s, i, 0)
    ELSE IF Match(s, i, <<"n", "u", "l", "l">>) THEN Got(i + 4, 0)
    ELSE IF Match(s, i, <<"t", "r", "u", "e">>) THEN Got(i + 4, 0)
    ELSE IF Match(s, i, <<"f", "a", "l", "s", "e">>) THEN Got(i + 5, 0)
    ELSE Fail

NoFields ==
    [hasId |-> FALSE, id |-> 0, hasContent |-> FALSE, content |-> <<>>,
     hasState |-> FALSE, state |-> "Pending"]

\* The members of a Todo written as a JSON object, from position i (after
\* "{" or after a member); first: no member was read yet.  A field given
\* twice or not given is an error; a field the struct lacks is skipped.
RECURSIVE todo_members(_, _, _, _)

member_id(s, r, acc) ==
    IF acc.hasId \/ ~r.ok THEN Fail
    ELSE todo_members(s, r.pos, [acc EXCEPT !.hasId = TRUE, !.id = r.val], FALSE)

member_content(s, r, acc) ==
    IF acc.hasContent \/ ~r.ok THEN Fail
    ELSE todo_members(s, r.pos,
             [acc EXCEPT !.hasContent = TRUE, !.content = r.val], FALSE)

member_state(s, r, acc) ==
    IF acc.hasState \/ ~r.ok THEN Fail
    ELSE todo_members(s, r.pos,
             [acc EXCEPT !.hasState = TRUE, !.state = r.val], FALSE)

member_other(s, r, acc) ==
    IF ~r.ok THEN Fail ELSE todo_members(s, r.pos, acc, FALSE)

\* The value of the member named key stands at v (0: no colon came).
member_value(s, key, v, acc) ==
    IF v = 0 THEN Fail
    ELSE IF key = IdKey THEN member_id(s, parse_u64(s, v), acc)
    ELSE IF key = ContentKey THEN member_content(s, parse_str(s, v), acc)
    ELSE IF key = StateKey THEN member_state(s, parse_state(s, v), acc)
    ELSE member_other(s, skip_value(s, v), acc)

member_key(s, k, acc) ==
    IF ~k.ok THEN Fail
    ELSE member_value(s, k.val, SkipWs(s, Expect(s, k.pos, ":")), acc)

members_at(s, j, acc, first) ==
    IF At(s, j) = "}" THEN
        IF acc.hasId /\ acc.hasContent /\ acc.hasState
        THEN Got(j + 1, Todo(acc.id, acc.content, acc.state))
        ELSE Fail
    ELSE IF ~first /\ At(s, j) # "," THEN Fail
    ELSE member_key(s, parse_str(s, IF first THEN j ELSE SkipWs(s, j + 1)), acc)

todo_members(s, i, acc, first) == members_at(s, SkipWs(s, i), acc, first)

\* A Todo written as a JSON array [id, content, state] (serde's visit_seq).
tuple_end(s, a, b, c) ==
    IF a.ok /\ b.ok /\ c.ok /\ Expect(s, c.pos, "]") > 0
    THEN Got(Expect(s, c.pos, "]"), Todo(a.val, b.val, c.val))
    ELSE Fail

tuple_state(s, a, b) ==
    tuple_end(s, a, b, parse_state(s, SkipWs(s, Expect(s, After(b), ","))))

tuple_content(s, a) ==
    tuple_state(s, a, parse_str(s, SkipWs(s, Expect(s, After(a), ","))))

todo_tuple(s, i) == tuple_content(s, parse_u64(s, SkipWs(s, i)))

parse_todo(s, i) ==
    IF At(s, i) = "{" THEN todo_members(s, i + 1, NoFields, TRUE)
    ELSE IF At(s, i) = "[" THEN todo_tuple(s, i + 1)
    ELSE Fail

\* The elements of the list, from position i (after "[" or after an element).
RECURSIVE vec_elems(_, _, _, _)

elem_got(s, r, acc) ==
    IF ~r.ok THEN Fail ELSE vec_elems(s, r.pos, Append(acc, r.val), FALSE)

elems_at(s, j, acc, first) ==
    IF At(s, j) = "]" THEN Got(j + 1, acc)
    ELSE IF ~first /\ At(s, j) # "," THEN Fail
    ELSE elem_got(s, parse_todo(s, IF first THEN j ELSE SkipWs(s, j + 1)), acc)

vec_elems(s, i, acc, first) == elems_at(s, SkipWs(s, i), acc, first)

\* from_str: one list, then nothing but white space.
list_end(s, r) ==
    IF ~r.ok THEN Fail
    ELSE IF SkipWs(s, r.pos) # Len(s) + 1 THEN Fail
    ELSE r

from_str(s) ==
    IF At(s, SkipWs(s, 1)) # "[" THEN Fail
    ELSE list_end(s, vec_elems(s, SkipWs(s, 1) + 1, <<>>, TRUE))

(***************************************************************************)
(* std::fs, as persistence.rs uses it.  A file is [exists, data].          *)
(***************************************************************************)
Absent == [exists |-> FALSE, data |-> <<>>]
FileOf(text) == [exists |-> TRUE, data |-> text]

\* A File::create that opens without truncating.
create_keeps(f) == [exists |-> TRUE, data |-> f.data]

\* File::create (the first half of fs::write): the file exists and is empty.
create(f) == [exists |-> TRUE, data |-> <<>>]

\* write_all on the handle create() opened: the bytes go to offset 0 and
\* replace what stands there; what stands beyond them stays.
write_all(f, bytes) ==
    [exists |-> TRUE,
     data |-> bytes \o SubSeq(f.data, Len(bytes) + 1, Len(f.data))]

\* What the process may do with the store file and its directory:
\* "rw" everything, "ro" read but neither create nor write, "none" nothing.
Perms == {"rw", "ro", "none"}
can_write(pm) == pm = "rw"
can_read(pm) == pm # "none"

\* fs::read_to_string answers an io::Error for bytes that are not UTF-8.
is_utf8(text) == \A i \in 1..Len(text) : text[i] # BadByte

(***************************************************************************)
(* Result<_, ActaError>                                                    *)
(***************************************************************************)
NoPath == <<>>
OkPath(path) == [kind |-> "Ok", path |-> path, val |-> <<>>]
OkList(l) == [kind |-> "Ok", path |-> NoPath, val |-> l]
OkUnit == [kind |-> "Ok", path |-> NoPath, val |-> <<>>]
Err(k) == [kind |-> k, path |-> NoPath, val |-> <<>>]

(***************************************************************************)
(* The pieces of init(), read() and write()                                *)
(***************************************************************************)
\* An init that falls back to a relative path when there is no home.
file_path_or_default(h) ==
    IF h = NoHome THEN OkPath(<<FILE_NAME>>) ELSE OkPath(<<h, FILE_NAME>>)

\* init: home_dir().ok_or(ActaError::HomeDir)?, then push(FILE_NAME).
file_path(h) == IF h = NoHome THEN Err("HomeDir") ELSE OkPath(<<h, FILE_NAME>>)

\* An init that writes "[]" whether the file exists or not.
must_create_always(f) == TRUE

\* init: if !file_path.exists()
must_create(f) == ~f.exists

\* An init that creates the store with no content.
NO_CONTENT == <<>>

\* init: the content a new store gets, "[]".
EMPTY_LIST == <<"[", "]">>

\* read: Ok(serde_json::from_str(&serialized_list)?)
\* A read that answers the default list when the text does not parse.
list_or_default(r) == IF r.ok THEN OkList(r.val) ELSE OkList(<<>>)

list_result(r) == IF r.ok THEN OkList(r.val) ELSE Err("Parse")

parsed(text) == list_result(from_str(text))

(***************************************************************************)
(* cli.rs: the command line and clap's reading of it                       *)
(*                                                                         *)
(* A command line is its subcommand word ("" for none) and, for each       *)
(* option, how it was given: --completed and --pending are flags; --id is  *)
(* "absent", "ok" (a u64) or "bad" (not a u64); --todo is given or not.    *)
(***************************************************************************)
Words == {"", "list", "add", "complete", "edit", "delete", "export", "bogus"}
ArgLines ==
    [cmd : Words, completed : BOOLEAN, pending : BOOLEAN,
     id : {"absent", "ok", "bad"}, todo : BOOLEAN]

Rejected == [ok |-> FALSE, some |-> FALSE, name |-> ""]
Parsed(name) == [ok |-> TRUE, some |-> name # "", name |-> name]

\* A List without its conflicts_with attributes.
list_ok_no_conflict(a) == a.id = "absent" /\ ~a.todo

\* Commands::List: completed and pending each conflicts_with the other.
list_ok(a) == a.id = "absent" /\ ~a.todo /\ ~(a.completed /\ a.pending)

\* Args::parse(): Rejected when clap prints its error and exits the process.
parse_args(a) ==
    LET flags == a.completed \/ a.pending
        noId == a.id = "absent"
    IN
    IF a.cmd = "" THEN
        IF ~flags /\ noId /\ ~a.todo THEN Parsed("") ELSE Rejected
    ELSE IF a.cmd = "list" THEN
        IF list_ok(a) THEN Parsed("list") ELSE Rejected
    ELSE IF a.cmd = "add" THEN
        IF ~flags /\ noId /\ a.todo THEN Parsed("add") ELSE Rejected
    ELSE IF a.cmd = "complete" THEN
        IF ~flags /\ a.id = "ok" /\ ~a.todo THEN Parsed("complete") ELSE Rejected
    ELSE IF a.cmd = "edit" THEN
        IF ~flags /\ a.id = "ok" /\ a.todo THEN Parsed("edit") ELSE Rejected
    ELSE IF a.cmd = "delete" THEN
        IF ~flags /\ a.id = "ok" /\ ~a.todo THEN Parsed("delete") ELSE Rejected
    ELSE IF a.cmd = "export" THEN
        IF ~flags /\ noId /\ ~a.todo THEN Parsed("export") ELSE Rejected
    ELSE Rejected

\* handle_command: the line each command prints.
handle_command(name) ==
    IF name = "list" THEN "Listing"
    ELSE IF name = "add" THEN "Adding"
    ELSE IF name = "complete" THEN "Completing"
    ELSE IF name = "edit" THEN "Editing"
    ELSE IF name = "delete" THEN "Deleting"
    ELSE "Exporting"

\* A main that stops when init() fails.
main_stops_on_error(r) == r.kind = "Ok"

\* main: let _ = persistence::init(); the result is dropped, whatever it is.
main_goes_on(r) == TRUE

\* main: None => panic!("TUI has not yet been implemented")
TuiPanic == "panic: TUI has not yet been implemented"

(***************************************************************************)
(* State                                                                   *)
(***************************************************************************)
VARIABLES
    home,       \* what home_dir() answers: a directory or NoHome
    perm,       \* the process's rights on the store file and its directory
    file,       \* the store file <home>/.acta
    file0,      \* the store file before anything ran
    pc,         \* per process: where it stands
    cur,        \* per process: the call in progress [op, arg, before]
    last,       \* per process: its last finished call [op, arg, res, before]
    prev,       \* per process: the finished call before that [op, arg, res]
    ncalls,     \* per process: calls started
    committed,  \* the list of the last write or creation that ran to its end
    argv,       \* per process: main's command line
    initres,    \* per process: what main's init() returned (and main dropped)
    out,        \* per process: lines printed on stdout
    exit        \* per process: how main ended

vars ==
    <<home, perm, file, file0, pc, cur, last, prev, ncalls, committed,
      argv, initres, out, exit>>

envVars == <<home, perm, file0>>
mainVars == <<argv, out, exit>>

NoCall == [op |-> "none", arg |-> <<>>, before |-> Absent]
NoLast == [op |-> "none", arg |-> <<>>, res |-> Err("none"), before |-> Absent]
NoPrev == [op |-> "none", arg |-> <<>>, res |-> Err("none")]
NoArgs ==
    [cmd |-> "", completed |-> FALSE, pending |-> FALSE, id |-> "absent",
     todo |-> FALSE]

(***************************************************************************)
(* The store files a run may find                                          *)
(***************************************************************************)
NotJson == <<"n", "o", "t", "-", "j", "s", "o", "n">>
EmptyText == <<>>
Truncated == SubSeq(to_string(<<TodoA>>), 1, 20)
Trailing == <<"[", "]", "x">>
ObjectText == <<"{", "}">>
MissingField == <<"[", "{", Q, "i", "d", Q, ":", "0", "}", "]">>
BadState ==
    <<"[", "[", "7", ",", Q, "a", Q, ",", Q, "D", "o", "n", "e", Q, "]", "]">>
MalformedTexts ==
    {NotJson, EmptyText, Truncated, Trailing, ObjectText, MissingField, BadState}

Spaced == <<" ", "[", "\n", " ", "]", "\n">>
TupleForm ==
    <<"[", "[", "7", ",", Q, "a", Q, ",">> \o ser_str(PendingName) \o <<"]", "]">>
NotUtf8 == <<"[", "]", BadByte>>

ValidTexts == {EMPTY_LIST, to_string(<<TodoB, TodoA>>), Spaced, TupleForm}

PriorFiles ==
    {Absent} \cup {FileOf(t) : t \in MalformedTexts \cup {NotUtf8} \cup ValidTexts}

CommittedIf(there, r) ==
    IF there /\ r.ok THEN [has |-> TRUE, val |-> r.val]
    ELSE [has |-> FALSE, val |-> <<>>]

CommittedOf(f) == CommittedIf(f.exists, from_str(f.data))

Init ==
    /\ home \in Homes \cup {NoHome}
    /\ perm \in Perms
    /\ file \in PriorFiles
    /\ file0 = file
    /\ pc = [p \in Procs |-> "idle"]
    /\ cur = [p \in Procs |-> NoCall]
    /\ last = [p \in Procs |-> NoLast]
    /\ prev = [p \in Procs |-> NoPrev]
    /\ ncalls = [p \in Procs |-> 0]
    /\ committed = CommittedOf(file)
    /\ argv = [p \in Procs |-> NoArgs]
    /\ initres = [p \in Procs |-> Err("none")]
    /\ out = [p \in Procs |-> <<>>]
    /\ exit = [p \in Procs |-> "running"]

(***************************************************************************)
(* Calls of the library: init(), read(), write(todos)                      *)
(***************************************************************************)
Begin(p, o, a) ==
    /\ pc[p] = "idle"
    /\ ncalls[p] < MaxCalls
    /\ ncalls' = [ncalls EXCEPT ![p] = @ + 1]
    /\ cur' = [cur EXCEPT ![p] = [op |-> o, arg |-> a, before |-> file]]
    /\ pc' = [pc EXCEPT ![p] = "init_home"]
    /\ UNCHANGED <<envVars, mainVars, file, last, prev, committed, initres>>

CallInit(p) == Begin(p, "init", <<>>)
CallRead(p) == Begin(p, "read", <<>>)
CallWrite(p, todos) == Begin(p, "write", todos)

\* The call in progress returns r to its caller.
Finish(p, r) ==
    /\ pc' = [pc EXCEPT ![p] = "idle"]
    /\ last' = [last EXCEPT ![p] =
                   [op |-> cur[p].op, arg |-> cur[p].arg, res |-> r,
                    before |-> cur[p].before]]
    /\ prev' = [prev EXCEPT ![p] =
                   [op |-> last[p].op, arg |-> last[p].arg, res |-> last[p].res]]

\* init() returns r: to main, which drops it; to read() and write(), whose ?
\* returns an error at once; or to the caller of init().
AfterInit(p, r) ==
    IF cur[p].op = "main" THEN
        /\ initres' = [initres EXCEPT ![p] = r]
        /\ pc' = [pc EXCEPT ![p] = "main_match"]
        /\ UNCHANGED <<last, prev>>
    ELSE IF r.kind = "Ok" /\ cur[p].op = "read" THEN
        /\ pc' = [pc EXCEPT ![p] = "read_file"]
        /\ UNCHANGED <<last, prev, initres>>
    ELSE IF r.kind = "Ok" /\ cur[p].op = "write" THEN
        /\ pc' = [pc EXCEPT ![p] = "write_create"]
        /\ UNCHANGED <<last, prev, initres>>
    ELSE
        /\ Finish(p, r)
        /\ UNCHANGED initres

\* let mut file_path = home_dir().ok_or(ActaError::HomeDir)?;
InitHome(p) ==
    /\ pc[p] = "init_home"
    /\ IF file_path(home).kind = "Ok"
       THEN /\ pc' = [pc EXCEPT ![p] = "init_exists"]
            /\ UNCHANGED <<last, prev, initres>>
       ELSE AfterInit(p, file_path(home))
    /\ UNCHANGED <<envVars, mainVars, file, cur, ncalls, committed>>

\* if !file_path.exists() { ... } Ok(file_path)
InitExists(p) ==
    /\ pc[p] = "init_exists"
    /\ IF must_create(file)
       THEN /\ pc' = [pc EXCEPT ![p] = "init_create"]
            /\ UNCHANGED <<last, prev, initres>>
       ELSE AfterInit(p, file_path(home))
    /\ UNCHANGED <<envVars, mainVars, file, cur, ncalls, committed>>

\* fs::write(&file_path, "[]")?: File::create
InitCreate(p) ==
    /\ pc[p] = "init_create"
    /\ IF can_write(perm)
       THEN /\ file' = create(file)
            /\ pc' = [pc EXCEPT ![p] = "init_fill"]
            /\ UNCHANGED <<last, prev, initres>>
       ELSE /\ AfterInit(p, Err("Io"))
            /\ UNCHANGED file
    /\ UNCHANGED <<envVars, mainVars, cur, ncalls, committed>>

\* fs::write(&file_path, "[]")?: write_all, then Ok(file_path)
InitFill(p) ==
    /\ pc[p] = "init_fill"
    /\ file' = write_all(file, EMPTY_LIST)
    /\ committed' = [has |-> TRUE, val |-> <<>>]
    /\ AfterInit(p, file_path(home))
    /\ UNCHANGED <<envVars, mainVars, cur, ncalls>>

\* read: fs::read_to_string(file_path)?, then from_str
ReadFile(p) ==
    /\ pc[p] = "read_file"
    /\ IF file.exists /\ can_read(perm) /\ is_utf8(file.data)
       THEN Finish(p, parsed(file.data))
       ELSE Finish(p, Err("Io"))
    /\ UNCHANGED <<envVars, mainVars, file, cur, ncalls, committed, initres>>

\* write: to_string(&todos)?, then fs::write(file_path, ..)?: File::create
WriteCreate(p) ==
    /\ pc[p] = "write_create"
    /\ IF can_write(perm)
       THEN /\ file' = create(file)
            /\ pc' = [pc EXCEPT ![p] = "write_fill"]
            /\ UNCHANGED <<last, prev>>
       ELSE /\ Finish(p, Err("Io"))
            /\ UNCHANGED file
    /\ UNCHANGED <<envVars, mainVars, cur, ncalls, committed, initres>>

\* write: fs::write(file_path, serialized_list)?: write_all, then Ok(())
WriteFill(p) ==
    /\ pc[p] = "write_fill"
    /\ file' = write_all(file, to_string(cur[p].arg))
    /\ committed' = [has |-> TRUE, val |-> cur[p].arg]
    /\ Finish(p, OkUnit)
    /\ UNCHANGED <<envVars, mainVars, cur, ncalls, initres>>

\* The process dies in the middle of a call.
Crash(p) ==
    /\ pc[p] \notin {"idle", "crashed", "exited"}
    /\ pc' = [pc EXCEPT ![p] = "crashed"]
    /\ UNCHANGED <<envVars, mainVars, file, cur, last, prev, ncalls, committed,
                   initres>>

(***************************************************************************)
(* main                                                                    *)
(***************************************************************************)
\* The process is started with the command line a.
MainStart(p, a) ==
    /\ pc[p] = "idle"
    /\ ncalls[p] = 0
    /\ ncalls' = [ncalls EXCEPT ![p] = 1]
    /\ argv' = [argv EXCEPT ![p] = a]
    /\ cur' = [cur EXCEPT ![p] = [op |-> "main", arg |-> <<>>, before |-> file]]
    /\ pc' = [pc EXCEPT ![p] = "main_parse"]
    /\ UNCHANGED <<envVars, file, last, prev, committed, initres, out, exit>>

\* let args = parse_args(); then persistence::init() is called.
MainParse(p) ==
    /\ pc[p] = "main_parse"
    /\ IF parse_args(argv[p]).ok
       THEN /\ pc' = [pc EXCEPT ![p] = "init_home"]
            /\ UNCHANGED exit
       ELSE /\ pc' = [pc EXCEPT ![p] = "exited"]
            /\ exit' = [exit EXCEPT ![p] = "usage"]
    /\ UNCHANGED <<envVars, file, cur, last, prev, ncalls, committed, argv,
                   initres, out>>

\* match args.command { Some(command) => handle_command(command), None => panic!(..) }
MainMatch(p) ==
    /\ pc[p] = "main_match"
    /\ pc' = [pc EXCEPT ![p] = "exited"]
    /\ IF ~main_goes_on(initres[p])
       THEN /\ exit' = [exit EXCEPT ![p] = "init failed"]
            /\ UNCHANGED out
       ELSE IF parse_args(argv[p]).some
       THEN /\ out' = [out EXCEPT ![p] =
                        Append(@, handle_command(parse_args(argv[p]).name))]
            /\ exit' = [exit EXCEPT ![p] = "ok"]
       ELSE /\ exit' = [exit EXCEPT ![p] = TuiPanic]
            /\ UNCHANGED out
    /\ UNCHANGED <<envVars, file, cur, last, prev, ncalls, committed, argv,
                   initres>>

(***************************************************************************)
(* Specifications                                                          *)
(***************************************************************************)
InitSteps(p) == InitHome(p) \/ InitExists(p) \/ InitCreate(p) \/ InitFill(p)
IoSteps(p) == ReadFile(p) \/ WriteCreate(p) \/ WriteFill(p)

\* One process uses the library; it may die at any point of a call.
Next ==
    \/ CallInit(1)
    \/ CallRead(1)
    \/ \E todos \in TodoLists : CallWrite(1, todos)
    \/ InitSteps(1)
    \/ IoSteps(1)
    \/ Crash(1)

Spec == Init /\ [][Next]_vars

\* Two processes use the library on one store, with no lock between them.
RaceLists == {<<>>, <<TodoA>>}

InitRace ==
    /\ Init
    /\ home = "/home/u"
    /\ perm = "rw"
    /\ file \in {Absent, FileOf(EMPTY_LIST)}

NextRace ==
    \E p \in Procs :
        \/ CallInit(p)
        \/ CallRead(p)
        \/ \E todos \in RaceLists : CallWrite(p, todos)
        \/ InitSteps(p)
        \/ IoSteps(p)

SpecRace == InitRace /\ [][NextRace]_vars

\* One run of the binary.
NextMain ==
    \/ \E a \in ArgLines : MainStart(1, a)
    \/ MainParse(1)
    \/ InitSteps(1)
    \/ MainMatch(1)

SpecMain == Init /\ [][NextMain]_vars

(***************************************************************************)
(* Properties                                                              *)
(***************************************************************************)
Idle(p) == pc[p] = "idle"
Succeeded(c) == c.res.kind = "Ok"
NotLists == MalformedTexts \cup {NotUtf8}

\* C1: round trip with full replacement.  When write(seq) has succeeded the
\* store file holds the serialization of seq and nothing else, whatever it
\* held before; and a read() that follows a successful write(seq) returns
\* exactly seq.
RoundTrip ==
    /\ (Idle(1) /\ last[1].op = "write" /\ Succeeded(last[1]))
           => file = FileOf(to_string(last[1].arg))
    /\ (Idle(1) /\ last[1].op = "read" /\ prev[1].op = "write" /\ Succeeded(prev[1]))
           => last[1].res = OkList(prev[1].arg)

\* A longer list stood in the file; write(<<TodoB>>) then read() have run.
RoundTripWitness ==
    /\ Idle(1)
    /\ file0 = FileOf(to_string(<<TodoB, TodoA>>))
    /\ prev[1].op = "write" /\ Succeeded(prev[1]) /\ prev[1].arg = <<TodoB>>
    /\ last[1].op = "read" /\ last[1].res = OkList(<<TodoB>>)

\* C2 as stated: read() of an existing store file (the home directory
\* resolves, the process may read the file) whose content is no list of
\* todos fails with Parse and leaves the file as it was.
ParseFailureOriginal ==
    (/\ Idle(1) /\ last[1].op = "read"
     /\ home # NoHome /\ can_read(perm)
     /\ last[1].before.exists /\ last[1].before.data \in NotLists)
        => (last[1].res = Err("Parse") /\ file = last[1].before)

\* C2 as amended: read() of an existing store file whose content is no list
\* of todos returns no list and leaves the file as it was; it fails with
\* HomeDir when no home directory resolves, else with Io when the file
\* cannot be read or is not UTF-8, else with Parse.
ParseFailure ==
    (/\ Idle(1) /\ last[1].op = "read"
     /\ last[1].before.exists /\ last[1].before.data \in NotLists)
        => /\ file = last[1].before
           /\ ~Succeeded(last[1])
           /\ last[1].res =
                  IF home = NoHome THEN Err("HomeDir")
                  ELSE IF ~can_read(perm) \/ ~is_utf8(last[1].before.data)
                       THEN Err("Io")
                  ELSE Err("Parse")

\* read() of a file holding the text not-json has failed with Parse.
ParseFailureWitness ==
    /\ Idle(1) /\ last[1].op = "read"
    /\ last[1].before = FileOf(NotJson)
    /\ last[1].res = Err("Parse")
    /\ file = FileOf(NotJson)

\* C3: with no home directory every call of init(), read() and write() fails
\* with HomeDir, and the store file is never created or changed.
NoHomeFails ==
    home = NoHome =>
        /\ file = file0
        /\ (Idle(1) /\ last[1].op # "none") => last[1].res = Err("HomeDir")
        /\ prev[1].op # "none" => prev[1].res = Err("HomeDir")

\* With no home directory and no store file, a read() and a write() ended.
NoHomeWitness ==
    /\ home = NoHome /\ file0 = Absent /\ Idle(1)
    /\ prev[1].op = "read"
    /\ last[1].op = "write" /\ last[1].arg = <<TodoA>>

\* C4: init() leaves an existing store file as it is; the second of two
\* init() calls in a row leaves the file as the first left it and returns
\* what the first returned, which on success is the path <home>/.acta.
IdempotentInit ==
    /\ (Idle(1) /\ last[1].op = "init" /\ last[1].before.exists)
           => file = last[1].before
    /\ (Idle(1) /\ last[1].op = "init" /\ prev[1].op = "init")
           => /\ file = last[1].before
              /\ last[1].res = prev[1].res
              /\ Succeeded(last[1]) => last[1].res.path = <<home, FILE_NAME>>

\* Two init() calls succeeded on a store file holding malformed text.
IdempotentInitWitness ==
    /\ Idle(1) /\ file0 = FileOf(NotJson) /\ file = file0
    /\ prev[1].op = "init" /\ Succeeded(prev[1])
    /\ last[1].op = "init" /\ Succeeded(last[1])
    /\ last[1].res.path = <<home, FILE_NAME>>

\* C5 as stated: with no store file, the first storage access that succeeds
\* (init, read or write) leaves a file holding exactly [], and a read()
\* right after returns the empty list.
EmptyDefaultOriginal ==
    /\ (Idle(1) /\ file0 = Absent /\ ncalls[1] = 1 /\ Succeeded(last[1]))
           => file = FileOf(EMPTY_LIST)
    /\ (Idle(1) /\ file0 = Absent /\ ncalls[1] = 2 /\ Succeeded(prev[1])
        /\ last[1].op = "read")
           => last[1].res = OkList(<<>>)

\* C5 as amended: with no store file, a first access by init() or read()
\* that succeeds leaves a file holding exactly [] (and read() returns the
\* empty list); a first access by write(seq) leaves the serialization of
\* seq; a read() right after returns the empty list, or seq after write(seq).
EmptyDefault ==
    /\ (Idle(1) /\ file0 = Absent /\ ncalls[1] = 1 /\ Succeeded(last[1]))
           => /\ file = FileOf(IF last[1].op = "write"
                               THEN to_string(last[1].arg) ELSE EMPTY_LIST)
              /\ last[1].op = "read" => last[1].res = OkList(<<>>)
    /\ (Idle(1) /\ file0 = Absent /\ ncalls[1] = 2 /\ Succeeded(prev[1])
        /\ last[1].op = "read")
           => last[1].res =
                  OkList(IF prev[1].op = "write" THEN prev[1].arg ELSE <<>>)

\* No store file; init() created it and the read() after it has returned.
EmptyDefaultWitness ==
    /\ Idle(1) /\ file0 = Absent /\ ncalls[1] = 2
    /\ prev[1].op = "init" /\ Succeeded(prev[1])
    /\ last[1].op = "read" /\ last[1].res = OkList(<<>>)
    /\ file = FileOf(EMPTY_LIST)

\* C6: a store file that was absent or a list of todos at the start is, at
\* rest (the process idle or dead), absent or a list of todos: the last one
\* fully written, or the one a write() that died was writing.
Text_is(f, lists) ==
    /\ from_str(f.data).ok
    /\ from_str(f.data).val \in lists

CrashSafe ==
    (/\ pc[1] \in {"idle", "crashed"}
     /\ ~file0.exists \/ from_str(file0.data).ok
     /\ file.exists)
        => Text_is(file,
               (IF committed.has THEN {committed.val} ELSE {})
               \cup (IF cur[1].op = "write" THEN {cur[1].arg} ELSE {}))

\* C7: when two processes have each run read() and then write(), both with
\* success, the store file holds the list of one of the two write() calls.
LastWriterWins ==
    (/\ \A p \in Procs :
            /\ Idle(p)
            /\ prev[p].op = "read" /\ Succeeded(prev[p])
            /\ last[p].op = "write" /\ Succeeded(last[p]))
        => file.data \in {to_string(last[p].arg) : p \in Procs}

\* C10: a step of init() that creates the store file (File::create, then
\* write_all of "[]") never changes a file that holds the list another
\* process has written with a write() that returned Ok.
InitKeepsWritten ==
    [][\A p \in Procs :
          (/\ pc[p] \in {"init_create", "init_fill"}
           /\ pc'[p] # pc[p]
           /\ \E q \in Procs \ {p} :
                  /\ last[q].op = "write" /\ Succeeded(last[q])
                  /\ file = FileOf(to_string(last[q].arg)))
              => file' = file]_vars

\* C8: list --completed --pending is rejected by parse_args: the process
\* ends in clap's usage error without init() having been called, without a
\* line printed by a handler, and with the store file as it was.
Conflict(a) == a.cmd = "list" /\ a.completed /\ a.pending

ConflictRejected ==
    Conflict(argv[1]) =>
        /\ pc[1] \in {"main_parse", "exited"}
        /\ pc[1] = "exited" => exit[1] = "usage"
        /\ initres[1] = Err("none")
        /\ out[1] = <<>>
        /\ file = file0

\* list --completed --pending has ended where init() would have created
\* the store file.
ConflictRejectedWitness ==
    /\ Conflict(argv[1]) /\ argv[1].id = "absent" /\ ~argv[1].todo
    /\ pc[1] = "exited"
    /\ home # NoHome /\ perm = "rw" /\ file0 = Absent

\* C9: whatever init() returned, a main whose command line parsed ends by
\* running the handler of its subcommand (printing that handler's line and
\* nothing else), or, with no subcommand, by the TUI panic.
SwallowedInit ==
    (pc[1] = "exited" /\ parse_args(argv[1]).ok) =>
        /\ initres[1] # Err("none")
        /\ IF parse_args(argv[1]).some
           THEN /\ out[1] = <<handle_command(parse_args(argv[1]).name)>>
                /\ exit[1] = "ok"
           ELSE /\ out[1] = <<>>
                /\ exit[1] = TuiPanic

\* init() failed and the add handler has run all the same.
SwallowedInitWitness ==
    /\ pc[1] = "exited"
    /\ initres[1].kind \in {"HomeDir", "Io"}
    /\ argv[1].cmd = "add"
    /\ out[1] = <<"Adding">> /\ exit[1] = "ok"

====
